---------------------------- MODULE Spec2Model ----------------------------
(***************************************************************************)
(* Model of ocaml_modules/bigstringaf/lib/bigstringaf_stubs.c: the five C  *)
(* stubs that copy and compare bytes between bigarray storage (the C heap) *)
(* and OCaml strings (the OCaml heap).                                     *)
(*                                                                         *)
(* Memory is modelled as two flat byte arrays.  cheap holds the data of    *)
(* the bigarrays one after the other, followed by Guard bytes that belong  *)
(* to some other allocation; mlheap does the same for the strings.  A stub *)
(* computes raw addresses (data pointer + offset) and hands them to        *)
(* memcpy, memmove or memcmp; it never reads the dimension of a bigarray   *)
(* or the length of a string.                                              *)
(*                                                                         *)
(* Spec        : a first call of any stub with any arguments, then one     *)
(*               follow-up call derived from it.                           *)
(* SpecOverlap : bigstringaf_blit_to_bigstring on one region holding 0..9. *)
(* SpecThreads : two threads, each call one byte per step, the callers     *)
(*               holding a reader/writer lock per region.                  *)
(***************************************************************************)
EXTENDS Integers, Sequences, FiniteSets, TLC

VARIABLES
    cheap,      \* bytes of the C heap: the bigarrays' data, then Guard bytes
    mlheap,     \* bytes of the OCaml heap: the strings' data, then Guard bytes
    bigarray,   \* id -> [data, dim]: struct caml_ba_array (data pointer, dim[0])
    string,     \* id -> [data, len]: String_val pointer and caml_string_length
    build,      \* which memcmp the build links (the magnitude it reports)
    old,        \* the two heaps as they were before the last call
    call,       \* the last call: stub, arguments, outcome
    prev,       \* the call before it
    thr,        \* thread -> the call it is in and how far the call has got
    rw          \* region -> the reader/writer lock its callers keep

vars == <<cheap, mlheap, bigarray, string, build, old, call, prev, thr, rw>>

----------------------------------------------------------------------------
(* Bounds of the model *)

\* Capacity of every bigarray and every string of the main specification.
Dim == 3
\* Bytes after the last region of a heap that a call may overrun into.
Guard == 1

----------------------------------------------------------------------------
(* Bytes and sequences *)

Sign(x) == IF x < 0 THEN -1 ELSE IF x > 0 THEN 1 ELSE 0

Min(x, y) == IF x < y THEN x ELSE y

\* All sequences of length n over S.
SeqsOf(S, n) == [1..n -> S]

\* The len bytes of heap m that start at address p (0-based).
Slice(m, p, len) == [i \in 1..len |-> m[p + i]]

\* The byte at address p of heap m.
At(m, p) == m[p + 1]

----------------------------------------------------------------------------
(* OCaml value representation: caml/mlvalues.h as used by the stubs *)

\* Val_int(x) = ((intnat)(x) << 1) + 1
Val_int(x) == 2 * x + 1

\* Int_val(v) = v >> 1 (arithmetic shift): how the caller reads the result.
Int_val(v) == (v - 1) \div 2

----------------------------------------------------------------------------
(* libc *)

\* A copy loop that stops one byte early.
MemcpyShort(dm, dstp, sm, srcp, len) ==
    [i \in 1..Len(dm) |->
        IF dstp < i /\ i < dstp + len THEN sm[srcp + (i - dstp)] ELSE dm[i]]

\* A copy loop that runs one byte too far (where the heaps have one).
MemcpyLong(dm, dstp, sm, srcp, len) ==
    [i \in 1..Len(dm) |->
        IF dstp < i /\ i <= dstp + len + 1 /\ srcp + (i - dstp) <= Len(sm)
        THEN sm[srcp + (i - dstp)] ELSE dm[i]]

\* memcpy(dst, src, len) between two different heaps: byte i of the source
\* lands at byte i of the destination, every other byte of dm is kept.
Memcpy(dm, dstp, sm, srcp, len) ==
    [i \in 1..Len(dm) |->
        IF dstp < i /\ i <= dstp + len THEN sm[srcp + (i - dstp)] ELSE dm[i]]

\* One pass of a byte loop over heap m, ascending addresses: bytes i..len-1.
RECURSIVE CopyForward(_, _, _, _, _)
CopyForward(m, dstp, srcp, len, i) ==
    IF i >= len THEN m
    ELSE CopyForward([m EXCEPT ![dstp + i + 1] = m[srcp + i + 1]],
                     dstp, srcp, len, i + 1)

\* The same loop, descending addresses: bytes i-1 down to 0.
RECURSIVE CopyBackward(_, _, _, _, _)
CopyBackward(m, dstp, srcp, len, i) ==
    IF i <= 0 THEN m
    ELSE CopyBackward([m EXCEPT ![dstp + i] = m[srcp + i]],
                      dstp, srcp, len, i - 1)

\* A copy that always walks forward: what memcpy's loop does on overlap.
MemmoveNaive(m, dstp, srcp, len) == CopyForward(m, dstp, srcp, len, 0)

\* memmove(dst, src, len) within one heap: the direction is chosen from the
\* relative position of the two pointers, so that no source byte is
\* overwritten before it is read.
Memmove(m, dstp, srcp, len) ==
    IF dstp <= srcp THEN CopyForward(m, dstp, srcp, len, 0)
    ELSE CopyBackward(m, dstp, srcp, len, len)

\* The smallest i < len where the two ranges differ, len when none does.
RECURSIVE FirstDiff(_, _, _, _, _, _)
FirstDiff(m1, p1, m2, p2, len, i) ==
    IF i >= len THEN len
    ELSE IF At(m1, p1 + i) # At(m2, p2 + i) THEN i
    ELSE FirstDiff(m1, p1, m2, p2, len, i + 1)

\* The builds: memcmp promises only the sign of its result.  "bytediff"
\* reports the difference of the two bytes, "sign" reports -1 or 1, and
\* "mixed" picks its loop from the alignment of the second operand: the
\* byte loop (difference) when it is unaligned, the word loop (-1 or 1)
\* when it is aligned.
Builds == {"bytediff", "sign", "mixed"}

\* A memcmp that reads the bytes as signed char.
MemcmpOrderSigned(x, y) ==
    (IF x >= 128 THEN x - 256 ELSE x) - (IF y >= 128 THEN y - 256 ELSE y)

\* memcmp orders the bytes as unsigned char: the difference of the values.
MemcmpOrder(x, y) == x - y

\* A result that drops the sign of the difference.
MemcmpValueAbs(bld, d, p2) == IF d = 0 THEN 0 ELSE 1

\* The int a build returns for a first difference d found with the second
\* operand at address p2.
MemcmpValue(bld, d, p2) ==
    IF bld = "bytediff" THEN d
    ELSE IF bld = "sign" THEN Sign(d)
    ELSE IF p2 % 2 = 0 THEN Sign(d) ELSE d

\* A memcmp that stops one byte early.
MemcmpShort(bld, m1, p1, m2, p2, len) ==
    LET n == IF len > 0 THEN len - 1 ELSE 0
        i == FirstDiff(m1, p1, m2, p2, n, 0)
    IN  IF i = n THEN 0
        ELSE MemcmpValue(bld, MemcmpOrder(At(m1, p1 + i), At(m2, p2 + i)), p2)

\* memcmp(s1, s2, len)
Memcmp(bld, m1, p1, m2, p2, len) ==
    LET i == FirstDiff(m1, p1, m2, p2, len, 0)
    IN  IF i = len THEN 0
        ELSE MemcmpValue(bld, MemcmpOrder(At(m1, p1 + i), At(m2, p2 + i)), p2)

----------------------------------------------------------------------------
(* The call record kept by the harness *)

NoCall ==
    [op |-> "none", a |-> 0, a_off |-> 0, b |-> 0, b_off |-> 0, len |-> 0,
     status |-> "none", result |-> 0]

Called(op, a, a_off, b, b_off, len, status, result) ==
    [op |-> op, a |-> a, a_off |-> a_off, b |-> b, b_off |-> b_off,
     len |-> len, status |-> status, result |-> result]

\* The threads of the callers, and a thread that is in no call.
Threads == {1, 2}

Idle ==
    [pc |-> "idle", c |-> NoCall, i |-> 0, expect |-> <<>>, after |-> <<>>,
     seen |-> <<>>, alone |-> 0, follows |-> {}, beside |-> {}]

\* A lock nobody holds: no writer (0), no readers.
Unlocked == [w |-> 0, r |-> {}]

BaIds == DOMAIN bigarray
StrIds == DOMAIN string

\* A view (off, len) lies within a region of the given capacity.
InBounds(off, len, capacity) == 0 <= off /\ 0 <= len /\ off + len <= capacity

\* The argument tuples <<a, a_off, b, b_off, len>> of a first call: every
\* pair of regions, every offset into each, every length that keeps both
\* ranges within the modelled heaps (at most Guard bytes past a region).
AllArgs(A, B) ==
    UNION {
        UNION {
            {<<a, a_off, b, b_off, len>> :
                len \in 0..Min(A[a].cap - a_off, B[b].cap - b_off) + Guard}
            : <<a_off, b_off>> \in (0..A[a].cap) \X (0..B[b].cap)}
        : <<a, b>> \in (DOMAIN A) \X (DOMAIN B)}

BaCaps == [i \in BaIds |-> [cap |-> bigarray[i].dim]]
StrCaps == [i \in StrIds |-> [cap |-> string[i].len]]

\* A tuple addresses bytes outside one of its two regions.
Overruns(t, A, B) ==
    \/ ~InBounds(t[2], t[5], A[t[1]].cap)
    \/ ~InBounds(t[4], t[5], B[t[3]].cap)

\* The harness makes a first call with any arguments and then one
\* follow-up call chosen from the first; a fault ends the process.
First == call.op = "none"
Second == call.op # "none" /\ prev.op = "none" /\ call.status = "returned"

Snapshot == [cheap |-> cheap, mlheap |-> mlheap]

\* The regions: a storage class and an id.
Regions == ({"ba"} \X BaIds) \cup ({"str"} \X StrIds)

----------------------------------------------------------------------------
(* Which calls the harness makes *)

\* After blit_from_bytes: copy the destination view back out to offset 0 of
\* any string.
FollowBlitToBytes ==
    IF call.op = "blit_from_bytes"
    THEN {<<call.b, call.b_off, d, 0, call.len>> : d \in StrIds}
    ELSE {}

\* After memcmp_bigstring: the same comparison again, and the comparison
\* with its operands exchanged.
FollowMemcmpBigstring ==
    IF call.op = "memcmp_bigstring"
    THEN {<<call.a, call.a_off, call.b, call.b_off, call.len>>,
          <<call.b, call.b_off, call.a, call.a_off, call.len>>}
    ELSE {}

\* After memcmp_string: the same comparison again.  After a copy between a
\* bigarray and a string: the comparison of the two ranges of the copy.
FollowMemcmpString ==
    IF call.op = "memcmp_string"
    THEN {<<call.a, call.a_off, call.b, call.b_off, call.len>>}
    ELSE IF call.op = "blit_to_bytes"
    THEN {<<call.a, call.a_off, call.b, call.b_off, call.len>>}
    ELSE IF call.op = "blit_from_bytes"
    THEN {<<call.b, call.b_off, call.a, call.a_off, call.len>>}
    ELSE {}

Args(all, follow) == IF First THEN all ELSE IF Second THEN follow ELSE {}

\* What every call leaves alone, and what the harness records.
Record(c) ==
    /\ call' = c
    /\ prev' = call
    /\ old' = Snapshot
    /\ UNCHANGED <<bigarray, string, build, thr, rw>>

----------------------------------------------------------------------------
(* The stubs *)

\* blit_to_bytes with the two offsets exchanged.
blit_to_bytes_swapped(vsrc, vsrc_off, vdst, vdst_off, vlen) ==
    LET src == bigarray[vsrc].data + vdst_off
        dst == string[vdst].data + vsrc_off
    IN  /\ dst + vlen <= Len(mlheap)
        /\ src + vlen <= Len(cheap)
        /\ mlheap' = Memcpy(mlheap, dst, cheap, src, vlen)
        /\ cheap' = cheap
        /\ Record(Called("blit_to_bytes", vsrc, vsrc_off, vdst, vdst_off,
                         vlen, "returned", 0))

\* void bigstringaf_blit_to_bytes(vsrc, vsrc_off, vdst, vdst_off, vlen)
bigstringaf_blit_to_bytes(vsrc, vsrc_off, vdst, vdst_off, vlen) ==
    LET src == bigarray[vsrc].data + vsrc_off
        dst == string[vdst].data + vdst_off
        len == vlen
        t   == <<vsrc, vsrc_off, vdst, vdst_off, vlen>>
    IN  \/ /\ mlheap' = Memcpy(mlheap, dst, cheap, src, len)
           /\ cheap' = cheap
           /\ Record(Called("blit_to_bytes", vsrc, vsrc_off, vdst, vdst_off,
                            vlen, "returned", 0))
        \/ /\ Overruns(t, BaCaps, StrCaps)
           /\ UNCHANGED <<cheap, mlheap>>
           /\ Record(Called("blit_to_bytes", vsrc, vsrc_off, vdst, vdst_off,
                            vlen, "fault", 0))

\* void bigstringaf_blit_to_bigstring(vsrc, vsrc_off, vdst, vdst_off, vlen)
bigstringaf_blit_to_bigstring(vsrc, vsrc_off, vdst, vdst_off, vlen) ==
    LET src == bigarray[vsrc].data + vsrc_off
        dst == bigarray[vdst].data + vdst_off
        len == vlen
        t   == <<vsrc, vsrc_off, vdst, vdst_off, vlen>>
    IN  \/ /\ cheap' = Memmove(cheap, dst, src, len)
           /\ mlheap' = mlheap
           /\ Record(Called("blit_to_bigstring", vsrc, vsrc_off, vdst,
                            vdst_off, vlen, "returned", 0))
        \/ /\ Overruns(t, BaCaps, BaCaps)
           /\ UNCHANGED <<cheap, mlheap>>
           /\ Record(Called("blit_to_bigstring", vsrc, vsrc_off, vdst,
                            vdst_off, vlen, "fault", 0))

\* void bigstringaf_blit_from_bytes(vsrc, vsrc_off, vdst, vdst_off, vlen)
bigstringaf_blit_from_bytes(vsrc, vsrc_off, vdst, vdst_off, vlen) ==
    LET src == string[vsrc].data + vsrc_off
        dst == bigarray[vdst].data + vdst_off
        len == vlen
        t   == <<vsrc, vsrc_off, vdst, vdst_off, vlen>>
    IN  \/ /\ cheap' = Memcpy(cheap, dst, mlheap, src, len)
           /\ mlheap' = mlheap
           /\ Record(Called("blit_from_bytes", vsrc, vsrc_off, vdst, vdst_off,
                            vlen, "returned", 0))
        \/ /\ Overruns(t, StrCaps, BaCaps)
           /\ UNCHANGED <<cheap, mlheap>>
           /\ Record(Called("blit_from_bytes", vsrc, vsrc_off, vdst, vdst_off,
                            vlen, "fault", 0))

\* value bigstringaf_memcmp_bigstring(vba1, vba1_off, vba2, vba2_off, vlen)
bigstringaf_memcmp_bigstring(vba1, vba1_off, vba2, vba2_off, vlen) ==
    LET ba1 == bigarray[vba1].data + vba1_off
        ba2 == bigarray[vba2].data + vba2_off
        len == vlen
        t   == <<vba1, vba1_off, vba2, vba2_off, vlen>>
        result == Memcmp(build, cheap, ba1, cheap, ba2, len)
    IN  /\ UNCHANGED <<cheap, mlheap>>
        /\ \/ Record(Called("memcmp_bigstring", vba1, vba1_off, vba2,
                            vba2_off, vlen, "returned",
                            Int_val(Val_int(result))))
           \/ /\ Overruns(t, BaCaps, BaCaps)
              /\ Record(Called("memcmp_bigstring", vba1, vba1_off, vba2,
                               vba2_off, vlen, "fault", 0))

\* value bigstringaf_memcmp_string(vba, vba_off, vstr, vstr_off, vlen)
bigstringaf_memcmp_string(vba, vba_off, vstr, vstr_off, vlen) ==
    LET buf1 == bigarray[vba].data + vba_off
        buf2 == string[vstr].data + vstr_off
        len == vlen
        t   == <<vba, vba_off, vstr, vstr_off, vlen>>
        result == Memcmp(build, cheap, buf1, mlheap, buf2, len)
    IN  /\ UNCHANGED <<cheap, mlheap>>
        /\ \/ Record(Called("memcmp_string", vba, vba_off, vstr, vstr_off,
                            vlen, "returned", Int_val(Val_int(result))))
           \/ /\ Overruns(t, BaCaps, StrCaps)
              /\ Record(Called("memcmp_string", vba, vba_off, vstr, vstr_off,
                               vlen, "fault", 0))

----------------------------------------------------------------------------
(* Initial memory *)

\* <<1, 2, ..., n-1, n+1>>
RampBump(n) == [i \in 1..n |-> IF i = n THEN i + 1 ELSE i]
\* <<1, 2, ..., n>>
Ramp(n) == [i \in 1..n |-> i]
\* <<255, 254, ...>>
High(n) == [i \in 1..n |-> 256 - i]
Fill(x, n) == [i \in 1..n |-> x]

\* Two regions of capacity n laid out one after the other from address 0.
Layout2(n, field) ==
    [i \in {1, 2} |->
        IF field = "dim" THEN [data |-> (i - 1) * n, dim |-> n]
        ELSE [data |-> (i - 1) * n, len |-> n]]

Init ==
    /\ bigarray = Layout2(Dim, "dim")
    /\ string = Layout2(Dim, "len")
    /\ \E b1 \in SeqsOf({127, 128}, Dim) \cup {RampBump(Dim)} :
          cheap = b1 \o Ramp(Dim) \o Fill(238, Guard)
    /\ \E s1 \in {RampBump(Dim), High(Dim)} :
          mlheap = s1 \o Fill(0, Dim) \o Fill(221, Guard)
    /\ build \in Builds
    /\ old = Snapshot
    /\ call = NoCall
    /\ prev = NoCall
    /\ thr = [t \in Threads |-> Idle]
    /\ rw = [k \in Regions |-> Unlocked]

Next ==
    \/ \E t \in Args(AllArgs(BaCaps, StrCaps), FollowBlitToBytes) :
          bigstringaf_blit_to_bytes(t[1], t[2], t[3], t[4], t[5])
    \/ \E t \in Args(AllArgs(BaCaps, BaCaps), {}) :
          bigstringaf_blit_to_bigstring(t[1], t[2], t[3], t[4], t[5])
    \/ \E t \in Args(AllArgs(StrCaps, BaCaps), {}) :
          bigstringaf_blit_from_bytes(t[1], t[2], t[3], t[4], t[5])
    \/ \E t \in Args(AllArgs(BaCaps, BaCaps), FollowMemcmpBigstring) :
          bigstringaf_memcmp_bigstring(t[1], t[2], t[3], t[4], t[5])
    \/ \E t \in Args(AllArgs(BaCaps, StrCaps), FollowMemcmpString) :
          bigstringaf_memcmp_string(t[1], t[2], t[3], t[4], t[5])

Spec == Init /\ [][Next]_vars

----------------------------------------------------------------------------
(* The overlap example: one bigarray of capacity 10 holding 0..9 *)

ExampleRegion == <<0, 1, 2, 3, 4, 5, 6, 7, 8, 9>>

InitOverlap ==
    /\ bigarray = [i \in {1} |-> [data |-> 0, dim |-> Len(ExampleRegion)]]
    /\ string = [i \in {1} |-> [data |-> 0, len |-> 0]]
    /\ cheap = ExampleRegion \o Fill(238, Guard)
    /\ mlheap = Fill(221, Guard)
    /\ build \in Builds
    /\ old = Snapshot
    /\ call = NoCall
    /\ prev = NoCall
    /\ thr = [t \in Threads |-> Idle]
    /\ rw = [k \in Regions |-> Unlocked]

NextOverlap ==
    \E t \in Args(AllArgs(BaCaps, BaCaps), {}) :
        bigstringaf_blit_to_bigstring(t[1], t[2], t[3], t[4], t[5])

SpecOverlap == InitOverlap /\ [][NextOverlap]_vars

----------------------------------------------------------------------------
(* Reading a call record *)

Blits == {"blit_to_bytes", "blit_to_bigstring", "blit_from_bytes"}
Compares == {"memcmp_bigstring", "memcmp_string"}

\* The storage class of each operand of a call.
AKind(c) == IF c.op = "blit_from_bytes" THEN "str" ELSE "ba"
BKind(c) == IF c.op \in {"blit_to_bytes", "memcmp_string"} THEN "str" ELSE "ba"

Base(kind, id) == IF kind = "ba" THEN bigarray[id].data ELSE string[id].data
Capacity(kind, id) == IF kind = "ba" THEN bigarray[id].dim ELSE string[id].len
HeapOf(snap, kind) == IF kind = "ba" THEN snap.cheap ELSE snap.mlheap

AAddr(c) == Base(AKind(c), c.a) + c.a_off
BAddr(c) == Base(BKind(c), c.b) + c.b_off

\* Both views of the call lie within their regions.
CallInBounds(c) ==
    /\ InBounds(c.a_off, c.len, Capacity(AKind(c), c.a))
    /\ InBounds(c.b_off, c.len, Capacity(BKind(c), c.b))

Returned(c, ops) == c.op \in ops /\ c.status = "returned"

\* The bytes of the two operands as the call found them.
AView(c, snap) == Slice(HeapOf(snap, AKind(c)), AAddr(c), c.len)
BView(c, snap) == Slice(HeapOf(snap, BKind(c)), BAddr(c), c.len)

\* i is the first position (1-based) where sequences x and y differ.
IsFirstDiff(x, y, i) ==
    /\ i \in 1..Len(x)
    /\ x[i] # y[i]
    /\ \A j \in 1..(i - 1) : x[j] = y[j]

----------------------------------------------------------------------------
(* Several threads: the stubs at the grain of one byte *)

(***************************************************************************)
(* The stubs take no lock.  Here each call is split into the steps of its  *)
(* libc loop, one byte at a time, so that the calls of two threads         *)
(* interleave.  The callers keep the discipline the stubs rely on: before  *)
(* a call a thread takes the write lock of the region it copies into and   *)
(* the read lock of each region it reads, and gives them back when the     *)
(* call has returned.                                                      *)
(***************************************************************************)

\* The region a call writes, and the regions it only reads.
WriteRegion(c) == IF c.op \in Blits THEN {<<BKind(c), c.b>>} ELSE {}
ReadRegions(c) ==
    ({<<AKind(c), c.a>>}
        \cup (IF c.op \in Compares THEN {<<BKind(c), c.b>>} ELSE {}))
    \ WriteRegion(c)

\* Thread t may take the locks of call c.
CanLock(t, c) ==
    /\ \A k \in WriteRegion(c) : rw[k].w = 0 /\ rw[k].r = {}
    /\ \A k \in ReadRegions(c) : rw[k].w = 0

Lock(t, c) ==
    [k \in Regions |->
        IF k \in WriteRegion(c) THEN [rw[k] EXCEPT !.w = t]
        ELSE IF k \in ReadRegions(c) THEN [rw[k] EXCEPT !.r = @ \cup {t}]
        ELSE rw[k]]

Unlock(t) ==
    [k \in Regions |->
        [w |-> IF rw[k].w = t THEN 0 ELSE rw[k].w, r |-> rw[k].r \ {t}]]

\* The calls the threads make: in-bounds views of Dim - 1 bytes at offset 0
\* or 1, into any bigarray and string 1.
ThreadArgs(A, B) ==
    {<<a, a_off, b, b_off, Dim - 1>> :
        a \in DOMAIN A, a_off \in {0, 1}, b \in DOMAIN B, b_off \in {0, 1}}

OneString == [i \in {1} |-> StrCaps[1]]

ThreadCalls ==
    {Called("blit_to_bytes", t[1], t[2], t[3], t[4], t[5], "running", 0) :
        t \in ThreadArgs(BaCaps, OneString)}
    \cup
    {Called("blit_to_bigstring", t[1], t[2], t[3], t[4], t[5], "running", 0) :
        t \in ThreadArgs(BaCaps, BaCaps)}
    \cup
    {Called("blit_from_bytes", t[1], t[2], t[3], t[4], t[5], "running", 0) :
        t \in ThreadArgs(OneString, BaCaps)}
    \cup
    {Called("memcmp_bigstring", t[1], t[2], t[3], t[4], t[5], "running", 0) :
        t \in ThreadArgs(BaCaps, BaCaps)}
    \cup
    {Called("memcmp_string", t[1], t[2], t[3], t[4], t[5], "running", 0) :
        t \in ThreadArgs(BaCaps, OneString)}

Running(t, ops) == thr[t].pc = "running" /\ thr[t].c.op \in ops

\* A loop that gives up one byte before the end.
FinishedEarly(t) == thr[t].i >= thr[t].c.len - 1

\* The libc loop of thread t has handled all len bytes.
Finished(t) == thr[t].i >= thr[t].c.len

\* Thread t takes its locks and enters a stub: the pointers are computed,
\* no byte has been touched.  The record keeps what the thread is entitled
\* to see: the source bytes as they are now, the result memcmp would give
\* on the memory as it is now, which threads have returned before and which
\* are in a call now.
Enter(t, c) ==
    /\ thr[t].pc = "idle"
    /\ CallInBounds(c)
    /\ CanLock(t, c)
    /\ rw' = Lock(t, c)
    /\ thr' = [thr EXCEPT ![t] =
          [pc |-> "running", c |-> c, i |-> 0,
           expect |-> AView(c, Snapshot),
           after |-> <<>>,
           seen |-> <<>>,
           alone |-> IF c.op \in Compares
                     THEN Int_val(Val_int(Memcmp(build,
                              HeapOf(Snapshot, AKind(c)), AAddr(c),
                              HeapOf(Snapshot, BKind(c)), BAddr(c), c.len)))
                     ELSE 0,
           follows |-> {u \in Threads : thr[u].pc = "done"},
           beside |-> {u \in Threads : thr[u].pc = "running"}]]
    /\ UNCHANGED <<cheap, mlheap, bigarray, string, build, old, call, prev>>

\* memcpy(dst, src, len) of blit_to_bytes and blit_from_bytes: one byte.
memcpy_step(t) ==
    /\ Running(t, {"blit_to_bytes", "blit_from_bytes"})
    /\ ~Finished(t)
    /\ LET c == thr[t].c
           i == thr[t].i
       IN  IF c.op = "blit_to_bytes"
           THEN /\ mlheap' = [mlheap EXCEPT ![BAddr(c) + i + 1] =
                                 At(cheap, AAddr(c) + i)]
                /\ cheap' = cheap
           ELSE /\ cheap' = [cheap EXCEPT ![BAddr(c) + i + 1] =
                                At(mlheap, AAddr(c) + i)]
                /\ mlheap' = mlheap
    /\ thr' = [thr EXCEPT ![t].i = @ + 1]
    /\ UNCHANGED <<bigarray, string, build, old, call, prev, rw>>

\* memmove(dst, src, len) of blit_to_bigstring: one byte, ascending when
\* dst <= src and descending otherwise.
memmove_step(t) ==
    /\ Running(t, {"blit_to_bigstring"})
    /\ ~Finished(t)
    /\ LET c == thr[t].c
           k == IF BAddr(c) <= AAddr(c) THEN thr[t].i
                ELSE c.len - 1 - thr[t].i
       IN  cheap' = [cheap EXCEPT ![BAddr(c) + k + 1] = At(cheap, AAddr(c) + k)]
    /\ thr' = [thr EXCEPT ![t].i = @ + 1]
    /\ UNCHANGED <<mlheap, bigarray, string, build, old, call, prev, rw>>

\* memcmp(s1, s2, len) of the two memcmp stubs: one pair of bytes; the scan
\* ends at the first pair that differs.
memcmp_step(t) ==
    /\ Running(t, Compares)
    /\ ~Finished(t)
    /\ LET c == thr[t].c
           x == At(HeapOf(Snapshot, AKind(c)), AAddr(c) + thr[t].i)
           y == At(HeapOf(Snapshot, BKind(c)), BAddr(c) + thr[t].i)
       IN  thr' = [thr EXCEPT
               ![t].seen = Append(@, <<x, y>>),
               ![t].i = IF x # y THEN c.len ELSE @ + 1,
               ![t].c.result =
                   IF x # y
                   THEN Int_val(Val_int(
                            MemcmpValue(build, MemcmpOrder(x, y), BAddr(c))))
                   ELSE 0]
    /\ UNCHANGED <<cheap, mlheap, bigarray, string, build, old, call, prev, rw>>

\* The libc call is over and the stub returns; the caller gives its locks
\* back.  The record keeps the destination bytes as they are at the return.
Leave(t) ==
    /\ thr[t].pc = "running"
    /\ Finished(t)
    /\ thr' = [thr EXCEPT ![t].pc = "done",
                          ![t].c.status = "returned",
                          ![t].after = BView(thr[t].c, Snapshot)]
    /\ rw' = Unlock(t)
    /\ UNCHANGED <<cheap, mlheap, bigarray, string, build, old, call, prev>>

InitThreads ==
    /\ bigarray = Layout2(Dim, "dim")
    /\ string = Layout2(Dim, "len")
    /\ cheap = RampBump(Dim) \o Ramp(Dim) \o Fill(238, Guard)
    /\ mlheap = High(Dim) \o Fill(0, Dim) \o Fill(221, Guard)
    /\ build \in Builds
    /\ old = Snapshot
    /\ call = NoCall
    /\ prev = NoCall
    /\ thr = [t \in Threads |-> Idle]
    /\ rw = [k \in Regions |-> Unlocked]

NextThreads ==
    \E t \in Threads :
        \/ thr[t].pc = "idle" /\ \E c \in ThreadCalls : Enter(t, c)
        \/ memcpy_step(t)
        \/ memmove_step(t)
        \/ memcmp_step(t)
        \/ Leave(t)

SpecThreads == InitThreads /\ [][NextThreads]_vars

----------------------------------------------------------------------------
(* Claims *)

\* C1: a call with a view whose offset + length exceeds the capacity of its
\* region ends with status OutOfBounds and leaves every byte of both heaps
\* as it was.
C1_BoundsEnforced ==
    (call.op # "none" /\ ~CallInBounds(call)) =>
        (call.status = "OutOfBounds" /\ Snapshot = old)

\* Before the call, bigarray 1 was the region 0..9.
HeldExample ==
    /\ bigarray[1].dim = Len(ExampleRegion)
    /\ Slice(old.cheap, bigarray[1].data, bigarray[1].dim) = ExampleRegion

\* C2: after blit_to_bigstring with in-bounds views, overlapping or not,
\* destination byte i holds the value source byte i had before the call;
\* copying view(0, 6) of the region 0..9 onto view(2, 6) leaves
\* 0,1,0,1,2,3,4,5 in positions 0..7.
C2_OverlapCorrect ==
    (Returned(call, {"blit_to_bigstring"}) /\ CallInBounds(call)) =>
        /\ \A i \in 0..(call.len - 1) :
              At(cheap, BAddr(call) + i) = At(old.cheap, AAddr(call) + i)
        /\ (/\ HeldExample
            /\ <<call.a, call.a_off, call.b, call.b_off, call.len>>
                   = <<1, 0, 1, 2, 6>>)
              => Slice(cheap, 0, 8) = <<0, 1, 0, 1, 2, 3, 4, 5>>

\* The example call of C2 has been made on the region 0..9.
C2_Witness ==
    /\ Returned(call, {"blit_to_bigstring"})
    /\ HeldExample
    /\ <<call.a, call.a_off, call.b, call.b_off, call.len>> = <<1, 0, 1, 2, 6>>
    /\ Slice(cheap, 0, 8) = <<0, 1, 0, 1, 2, 3, 4, 5>>

\* The harness has copied a string range into a bigarray view (prev) and
\* then that view out to offset 0 of a string (call), all views in bounds.
RoundTrip ==
    /\ Returned(prev, {"blit_from_bytes"})
    /\ Returned(call, {"blit_to_bytes"})
    /\ CallInBounds(prev)
    /\ CallInBounds(call)
    /\ call.a = prev.b
    /\ call.a_off = prev.b_off
    /\ call.len = prev.len
    /\ call.b_off = 0

\* C3: blit_from_bytes of L bytes b into a view, followed by blit_to_bytes
\* of that view to offset 0 of a string out, leaves out[0:L] = b.
C3_RoundTrip ==
    RoundTrip =>
        Slice(mlheap, string[call.b].data, call.len)
            = Slice(old.mlheap, string[prev.a].data + prev.a_off, prev.len)

\* A round trip of a whole string, from offset 0, into another string that
\* held different bytes.
C3_Witness ==
    /\ RoundTrip
    /\ prev.a_off = 0
    /\ prev.len = string[prev.a].len
    /\ prev.len > 0
    /\ call.b # prev.a
    /\ Slice(old.mlheap, string[call.b].data, call.len)
           # Slice(mlheap, string[call.b].data, call.len)
    /\ Slice(mlheap, string[call.b].data, call.len)
           = Slice(mlheap, string[prev.a].data, call.len)

\* C4: an in-bounds comparison returns zero iff the two views hold the same
\* bytes, and otherwise a value with the sign of a[i] - b[i] at the first
\* position i where they differ; 1,2,3 against 1,2,4 is negative.
C4_Lexicographic ==
    (Returned(call, Compares) /\ CallInBounds(call)) =>
        LET x == AView(call, old)
            y == BView(call, old)
        IN  /\ (call.result = 0) <=> (x = y)
            /\ \A i \in 1..call.len :
                  IsFirstDiff(x, y, i) =>
                      Sign(call.result) = Sign(x[i] - y[i])
            /\ (x = <<1, 2, 3>> /\ y = <<1, 2, 4>>) => call.result < 0
            /\ (x = <<1, 2, 3>> /\ y = <<1, 2, 3>>) => call.result = 0

\* 1,2,3 has been compared with 1,2,4 and the result was negative.
C4_Witness ==
    /\ Returned(call, Compares)
    /\ CallInBounds(call)
    /\ AView(call, old) = <<1, 2, 3>>
    /\ BView(call, old) = <<1, 2, 4>>
    /\ call.result < 0

\* The harness has compared two bigarray views (prev) and then the same
\* views with the operands exchanged (call).
Exchanged ==
    /\ Returned(prev, {"memcmp_bigstring"})
    /\ Returned(call, {"memcmp_bigstring"})
    /\ CallInBounds(call)
    /\ <<call.a, call.a_off, call.b, call.b_off, call.len>>
           = <<prev.b, prev.b_off, prev.a, prev.a_off, prev.len>>

\* A view compared with itself.
SelfCompare ==
    /\ Returned(call, {"memcmp_bigstring"})
    /\ CallInBounds(call)
    /\ call.a = call.b
    /\ call.a_off = call.b_off

\* C5 as claimed: compare(v, v) = 0, and compare(a, b) is the exact
\* negation of compare(b, a).
C5_ExactNegation ==
    /\ SelfCompare => call.result = 0
    /\ Exchanged => call.result = -prev.result

\* C5 as amended: compare(v, v) = 0, and compare(a, b) and compare(b, a)
\* have opposite signs (both zero, or one negative and one positive).
C5_OppositeSigns ==
    /\ SelfCompare => call.result = 0
    /\ Exchanged => Sign(call.result) = -Sign(prev.result)

\* Two views that differ have been compared both ways round.
C5_Witness ==
    /\ Exchanged
    /\ prev.result > 0
    /\ call.result < 0

\* C7: a copy that returns, given in-bounds views, changes no byte outside
\* the destination range; no call changes a region's data pointer or
\* capacity; a comparison changes no byte, and the same comparison made
\* twice returns the same result.
C7_Frame ==
    /\ (Returned(call, Blits) /\ CallInBounds(call)) =>
          LET k == BKind(call)
              other == IF k = "ba" THEN "str" ELSE "ba"
          IN  /\ HeapOf(Snapshot, other) = HeapOf(old, other)
              /\ Len(HeapOf(Snapshot, k)) = Len(HeapOf(old, k))
              /\ \A p \in 0..(Len(HeapOf(old, k)) - 1) :
                    (p < BAddr(call) \/ p >= BAddr(call) + call.len) =>
                        At(HeapOf(Snapshot, k), p) = At(HeapOf(old, k), p)
    /\ bigarray = Layout2(Dim, "dim")
    /\ string = Layout2(Dim, "len")
    /\ Returned(call, Compares) => Snapshot = old
    /\ (/\ Returned(call, Compares)
        /\ Returned(prev, Compares)
        /\ <<call.op, call.a, call.a_off, call.b, call.b_off, call.len>>
               = <<prev.op, prev.a, prev.a_off, prev.b, prev.b_off, prev.len>>)
          => call.result = prev.result

\* A copy into the middle of a region changed it while its first byte, its
\* last byte and the other heap stayed as they were.
C7_Witness ==
    /\ Returned(call, {"blit_from_bytes"})
    /\ CallInBounds(call)
    /\ call.b_off = 1
    /\ call.len = 1
    /\ cheap # old.cheap
    /\ At(cheap, BAddr(call) - 1) = At(old.cheap, BAddr(call) - 1)
    /\ At(cheap, BAddr(call) + 1) = At(old.cheap, BAddr(call) + 1)
    /\ mlheap = old.mlheap

\* Thread w has returned from a copy.
Copied(w) == thr[w].pc = "done" /\ thr[w].c.op \in Blits

\* Thread r entered its call after the copy of thread w had returned, and
\* its first operand (second operand) is the view w copied into.
ReadsAfterA(r, w) ==
    /\ Copied(w)
    /\ thr[r].pc # "idle"
    /\ w \in thr[r].follows
    /\ <<AKind(thr[r].c), thr[r].c.a, thr[r].c.a_off>>
           = <<BKind(thr[w].c), thr[w].c.b, thr[w].c.b_off>>

ReadsAfterB(r, w) ==
    /\ Copied(w)
    /\ thr[r].pc # "idle"
    /\ thr[r].c.op \in Compares
    /\ w \in thr[r].follows
    /\ <<BKind(thr[r].c), thr[r].c.b, thr[r].c.b_off>>
           = <<BKind(thr[w].c), thr[w].c.b, thr[w].c.b_off>>

\* C8: with callers that keep one writer or several readers per region, a
\* copy is complete when its call returns (the destination holds the len
\* source bytes); a call that starts after a copy into its operand has
\* returned reads those len bytes and no older byte; and a comparison,
\* whatever runs beside it, returns the result it would return run alone.
C8_ThreadSafe ==
    /\ \A w \in Threads : Copied(w) => thr[w].after = thr[w].expect
    /\ \A r, w \in Threads :
          ReadsAfterA(r, w) =>
              /\ thr[r].expect = thr[w].expect
              /\ \A j \in 1..Len(thr[r].seen) :
                    thr[r].seen[j][1] = thr[w].expect[j]
    /\ \A r, w \in Threads :
          ReadsAfterB(r, w) =>
              \A j \in 1..Len(thr[r].seen) :
                  thr[r].seen[j][2] = thr[w].expect[j]
    /\ \A r \in Threads :
          (thr[r].pc = "done" /\ thr[r].c.op \in Compares) =>
              thr[r].c.result = thr[r].alone

\* A comparison that started after a copy had returned has read every byte
\* the copy wrote, and the copy had changed those bytes.
C8_Witness ==
    \E r, w \in Threads :
        /\ ReadsAfterA(r, w)
        /\ thr[r].pc = "done"
        /\ thr[r].c.op \in Compares
        /\ Len(thr[r].seen) = thr[w].c.len
        /\ thr[w].after # AView(thr[r].c, old)
        /\ thr[w].after = [j \in 1..Len(thr[r].seen) |-> thr[r].seen[j][1]]

\* Two comparisons that read the same bigarray ran beside each other and
\* both have returned.
C8_ReadersTogether ==
    \E r, u \in Threads :
        /\ r # u
        /\ thr[r].pc = "done" /\ thr[u].pc = "done"
        /\ thr[r].c.op \in Compares /\ thr[u].c.op \in Compares
        /\ thr[r].c.a = thr[u].c.a
        /\ r \in thr[u].beside
        /\ thr[r].c.result # 0

\* C9: blit_to_bytes and blit_from_bytes with in-bounds views at any
\* offsets leave destination byte i equal to source byte i for every
\* i < len and the source as it was; with len = 0 no byte changes.
C9_CrossStorageCopy ==
    (Returned(call, {"blit_to_bytes", "blit_from_bytes"})
     /\ CallInBounds(call)) =>
        LET sk == AKind(call)
            dk == BKind(call)
        IN  /\ \A i \in 0..(call.len - 1) :
                  At(HeapOf(Snapshot, dk), BAddr(call) + i)
                      = At(HeapOf(old, sk), AAddr(call) + i)
            /\ HeapOf(Snapshot, sk) = HeapOf(old, sk)
            /\ call.len = 0 => Snapshot = old

\* A copy of two bytes between non-zero offsets that changed the
\* destination.
C9_Witness ==
    /\ Returned(call, {"blit_to_bytes"})
    /\ CallInBounds(call)
    /\ call.a_off = 1
    /\ call.b_off = 1
    /\ call.len = 2
    /\ mlheap # old.mlheap
    /\ Slice(mlheap, BAddr(call), 2) = Slice(cheap, AAddr(call), 2)

\* C10: an in-bounds comparison orders the bytes as values 0..255: with x
\* and y the bytes at the first differing position, the result is negative
\* iff x < y, so a byte of 128..255 compares greater than one of 0..127.
C10_UnsignedOrder ==
    (Returned(call, Compares) /\ CallInBounds(call)) =>
        LET x == AView(call, old)
            y == BView(call, old)
        IN  \A i \in 1..call.len :
                IsFirstDiff(x, y, i) =>
                    /\ (call.result < 0) <=> (x[i] < y[i])
                    /\ (x[i] >= 128 /\ y[i] < 128) => call.result > 0

\* 0x80 has been compared with 0x7F and the result was positive.
C10_Witness ==
    /\ Returned(call, Compares)
    /\ CallInBounds(call)
    /\ call.len = 1
    /\ AView(call, old) = <<128>>
    /\ BView(call, old) = <<127>>
    /\ call.result > 0

=============================================================================
